---- MODULE Spec2Model ----
(***************************************************************************)
(* A model of the ORCA DFT calculator (src/app.py): the input builder      *)
(* generate_orca_input, the process runner run_orca_calculation, the       *)
(* output parser parse_orca_output and the request handler in main.        *)
(*                                                                         *)
(* Text representation.  A character is a one-character string, a token a  *)
(* sequence of characters, a line a sequence of tokens and a text a        *)
(* non-empty sequence of lines: the text is its lines joined by "\n", so   *)
(* that Python's text.split('\n') is the sequence itself and line i is     *)
(* followed by a newline exactly when i < Len(text).  Tokens of a line are *)
(* separated by one space and a line carries no leading or trailing white  *)
(* space; a line without tokens is a blank line.                           *)
(***************************************************************************)
EXTENDS Integers, Sequences, FiniteSets, TLC

VARIABLES
  pc,            \* position of the request handler (main) / of the stand-alone call
  geometry,      \* geometry_input: the text of the text area
  request,       \* number of the current script run
  dirExists,     \* the TemporaryDirectory of this request is on disk
  dirsCreated,   \* temporary directories created by this request
  inpFile,       \* calculation.inp: <<>> when absent, else <<text>>
  outFile,       \* calculation.out: exists, is readable as text, its text
  child,         \* the shell child of subprocess.run: phase and return code
  cause,         \* what happened to the run (recorded by the environment)
  result,        \* (success, output_file, message) of run_orca_calculation
  engineRuns,    \* subprocess.run calls of this request
  markerChecks,  \* evaluations of the success-marker test (line 65)
  parserCalls,   \* parse_orca_output calls of this request
  parsed,        \* (energy, optimized_geometry, full_output)
  shown,         \* what the request presented to the user
  inputDoc       \* value returned by generate_orca_input

vars == <<pc, geometry, request, dirExists, dirsCreated, inpFile, outFile, child,
          cause, result, engineRuns, markerChecks, parserCalls, parsed, shown,
          inputDoc>>

----------------------------------------------------------------------------
(* Bounds of the model *)

MaxRequests == 2
MaxOutLines == 3
MaxTextLines == 3
MaxSections == 2
MaxBodyLines == 2
MaxGeomLines == 3

----------------------------------------------------------------------------
(* Characters, tokens, lines *)

Digits == {"0", "1", "2", "3", "4", "5", "6", "7", "8", "9"}

BLANK == <<>>

RECURSIVE DigitRun(_, _)
\* number of consecutive digits of token t from position i on (regex \d*)
DigitRun(t, i) ==
  IF i <= Len(t) /\ t[i] \in Digits THEN 1 + DigitRun(t, i + 1) ELSE 0

HasSuffix(t, w) ==
  Len(t) >= Len(w) /\ SubSeq(t, Len(t) - Len(w) + 1, Len(t)) = w

HasPrefix(t, w) ==
  Len(t) >= Len(w) /\ SubSeq(t, 1, Len(w)) = w

\* the literal words of src/app.py
W_ORCA == <<"O", "R", "C", "A">>
W_TERMINATED == <<"T", "E", "R", "M", "I", "N", "A", "T", "E", "D">>
W_NORMALLY == <<"N", "O", "R", "M", "A", "L", "L", "Y">>
W_FINAL == <<"F", "I", "N", "A", "L">>
W_SINGLE == <<"S", "I", "N", "G", "L", "E">>
W_POINT == <<"P", "O", "I", "N", "T">>
W_ENERGY == <<"E", "N", "E", "R", "G", "Y">>
W_CARTESIAN == <<"C", "A", "R", "T", "E", "S", "I", "A", "N">>
W_COORDINATES == <<"C", "O", "O", "R", "D", "I", "N", "A", "T", "E", "S">>
W_ANGSTROEM == <<"(", "A", "N", "G", "S", "T", "R", "O", "E", "M", ")">>

MarkerLine == <<W_ORCA, W_TERMINATED, W_NORMALLY>>
HeaderLine == <<W_CARTESIAN, W_COORDINATES, W_ANGSTROEM>>
RuleLine == << <<"-", "-", "-", "-", "-">> >>

----------------------------------------------------------------------------
(* parse_orca_output: the energy *)

\* Length of the match of [-+]?\d*\.?\d+(?:[eE][-+]?\d+)? at the start of
\* token t under Python's backtracking, 0 when it does not match there.
NumMatchLen(t) ==
  LET s == IF Len(t) >= 1 /\ t[1] \in {"-", "+"} THEN 1 ELSE 0
      a == DigitRun(t, s + 1)
      dot == s + a + 1 <= Len(t) /\ t[s + a + 1] = "."
      b == IF dot THEN DigitRun(t, s + a + 2) ELSE 0
      m == IF dot /\ b >= 1 THEN s + a + 1 + b
           ELSE IF a >= 1 THEN s + a ELSE 0
      e == m >= 1 /\ m + 1 <= Len(t) /\ t[m + 1] \in {"e", "E"}
      es == IF e /\ m + 2 <= Len(t) /\ t[m + 2] \in {"-", "+"} THEN 1 ELSE 0
      ed == IF e THEN DigitRun(t, m + 2 + es) ELSE 0
  IN IF e /\ ed >= 1 THEN m + 1 + es + ed ELSE m

\* The literal FINAL SINGLE POINT ENERGY ends at token j+3 of line i and
\* white space follows it (\s+).
LabelAt(text, i, j) ==
  /\ j + 3 <= Len(text[i])
  /\ HasSuffix(text[i][j], W_FINAL)
  /\ text[i][j + 1] = W_SINGLE
  /\ text[i][j + 2] = W_POINT
  /\ text[i][j + 3] = W_ENERGY
  /\ (j + 3 < Len(text[i]) \/ i < Len(text))

RECURSIVE FirstTokenFrom(_, _)
\* first token of the first non-blank line from line i on, <<>> if none
FirstTokenFrom(text, i) ==
  IF i > Len(text) THEN <<>>
  ELSE IF Len(text[i]) >= 1 THEN text[i][1]
  ELSE FirstTokenFrom(text, i + 1)

\* the text that follows the label and its white space
TokenAfterLabel(text, i, j) ==
  IF j + 3 < Len(text[i]) THEN text[i][j + 4] ELSE FirstTokenFrom(text, i + 1)

LabelPositions(text) ==
  UNION {{<<i, j>> : j \in {k \in 1..Len(text[i]) : LabelAt(text, i, k)}} :
         i \in 1..Len(text)}

Before(p, q) == p[1] < q[1] \/ (p[1] = q[1] /\ p[2] < q[2])

\* re.search: the leftmost place where label, white space and number all match
EnergyMatches(text) ==
  {p \in LabelPositions(text) :
     NumMatchLen(TokenAfterLabel(text, p[1], p[2])) >= 1}

Found(x) == [kind |-> "found", val |-> x, err |-> "none"]
NotFound == [kind |-> "notfound", val |-> <<>>, err |-> "none"]
ErrorStr(m) == [kind |-> "error", val |-> <<>>, err |-> m]

ParseEnergyLast(text) ==
  LET ms == EnergyMatches(text) IN
  IF ms = {} THEN NotFound
  ELSE LET p == CHOOSE q \in ms : \A o \in ms : o = q \/ Before(o, q)
           t == TokenAfterLabel(text, p[1], p[2])
       IN Found(SubSeq(t, 1, NumMatchLen(t)))

\* lines 81-87
ParseEnergy(text) ==
  LET ms == EnergyMatches(text) IN
  IF ms = {} THEN NotFound
  ELSE LET p == CHOOSE q \in ms : \A o \in ms : o = q \/ Before(q, o)
           t == TokenAfterLabel(text, p[1], p[2])
       IN Found(SubSeq(t, 1, NumMatchLen(t)))

----------------------------------------------------------------------------
(* parse_orca_output: the optimized geometry *)

Lower(c) ==
  CASE c = "I" -> "i" [] c = "N" -> "n" [] c = "F" -> "f" [] c = "A" -> "a"
    [] c = "T" -> "t" [] c = "Y" -> "y" [] OTHER -> c

LowerTok(t) == [i \in 1..Len(t) |-> Lower(t[i])]

NonFiniteWords ==
  { <<"i", "n", "f">>, <<"n", "a", "n">>,
    <<"i", "n", "f", "i", "n", "i", "t", "y">> }

Unsigned(t) ==
  IF Len(t) >= 1 /\ t[1] \in {"-", "+"} THEN SubSeq(t, 2, Len(t)) ELSE t

\* Python float(t) accepts inf, infinity and nan in any case, with a sign
IsNonFinite(t) == LowerTok(Unsigned(t)) \in NonFiniteWords

\* Python float(t) accepts the decimal literal t
IsDecimal(t) ==
  LET u == Unsigned(t)
      a == DigitRun(u, 1)
      dot == a + 1 <= Len(u) /\ u[a + 1] = "."
      b == IF dot THEN DigitRun(u, a + 2) ELSE 0
      m == IF dot THEN a + 1 + b ELSE a
      e == m + 1 <= Len(u) /\ u[m + 1] \in {"e", "E"}
      es == IF e /\ m + 2 <= Len(u) /\ u[m + 2] \in {"-", "+"} THEN 1 ELSE 0
      ed == IF e THEN DigitRun(u, m + 2 + es) ELSE 0
  IN /\ a + b >= 1
     /\ IF e THEN ed >= 1 /\ m + 1 + es + ed = Len(u) ELSE m = Len(u)

\* float(t) returns instead of raising ValueError
FloatOK(t) == IsDecimal(t) \/ IsNonFinite(t)

AllDashes(t) == Len(t) >= 1 /\ \A i \in 1..Len(t) : t[i] = "-"

\* -+\s*\n : the line is a rule and a newline ends it
IsSeparator(text, r) ==
  r < Len(text) /\ Len(text[r]) = 1 /\ AllDashes(text[r][1])

\* the lookahead (?=-{3,}|\n\s*\n) at the start of line p
Look(text, p) ==
  /\ p <= Len(text)
  /\ \/ Len(text[p]) >= 1 /\ HasPrefix(text[p][1], <<"-", "-", "-">>)
     \/ text[p] = BLANK /\ p + 1 < Len(text) /\ text[p + 1] = BLANK

RECURSIVE SkipBlank(_, _)
\* the first line from i on that is not a blank line followed by a newline
SkipBlank(text, i) ==
  IF i < Len(text) /\ text[i] = BLANK THEN SkipBlank(text, i + 1) ELSE i

NoMatch == [ok |-> FALSE, from |-> 0, to |-> 0, end |-> 0]

\* One match of geometry_pattern with its header on line h: the captured
\* lines are from..to, the match ends before line end.
MatchAt(text, h) ==
  IF h > Len(text) \/ text[h] # HeaderLine THEN NoMatch
  ELSE
    LET r == SkipBlank(text, h + 1) IN
    IF ~IsSeparator(text, r) THEN NoMatch
    ELSE
      LET s0 == SkipBlank(text, r + 1)
          k == s0 - r - 1
          ps == {p \in s0..Len(text) : Look(text, p)}
      IN IF ps # {}
         THEN LET p == CHOOSE q \in ps : \A o \in ps : q <= o
              IN [ok |-> TRUE, from |-> s0, to |-> p - 1, end |-> p]
         ELSE IF k >= 2
              THEN [ok |-> TRUE, from |-> r + k - 1, to |-> r + k - 2,
                    end |-> r + k - 1]
              ELSE NoMatch

RECURSIVE FindAll(_, _)
\* re.findall: the matches in document order, none overlapping
FindAll(text, pos) ==
  IF pos > Len(text) THEN <<>>
  ELSE LET m == MatchAt(text, pos) IN
       IF m.ok THEN <<m>> \o FindAll(text, m.end)
       ELSE FindAll(text, pos + 1)

PadLeft(t, w) == [i \in 1..(IF Len(t) >= w THEN 0 ELSE w - Len(t)) |-> " "] \o t
PadRight(t, w) == t \o [i \in 1..(IF Len(t) >= w THEN 0 ELSE w - Len(t)) |-> " "]

\* f"{parts[0]:2s}  {parts[1]:>12s}  {parts[2]:>12s}  {parts[3]:>12s}"
FormatAtom(parts) ==
  PadRight(parts[1], 2) \o <<" ", " ">> \o PadLeft(parts[2], 12) \o <<" ", " ">>
    \o PadLeft(parts[3], 12) \o <<" ", " ">> \o PadLeft(parts[4], 12)

\* lines 99-110: the test that appends a line of the block to atom_lines
KeepsLine(line) ==
  /\ Len(line) >= 1
  /\ line[1][1] # "-"
  /\ Len(line) >= 4
  /\ FloatOK(line[2]) /\ FloatOK(line[3]) /\ FloatOK(line[4])

RECURSIVE AtomLines(_)
AtomLines(block) ==
  IF block = <<>> THEN <<>>
  ELSE (IF KeepsLine(Head(block)) THEN <<FormatAtom(Head(block))>> ELSE <<>>)
       \o AtomLines(Tail(block))

Block(text, m) == SubSeq(text, m.from, m.to)

ParseGeometry(text) ==
  LET ms == FindAll(text, 1) IN
  IF ms = <<>> THEN NotFound
  ELSE LET atoms == AtomLines(Block(text, ms[Len(ms)])) IN
       IF atoms = <<>> THEN NotFound ELSE Found(atoms)

\* "Error: <message>" strings carry the message; str(e) alone is Msg
Msg(m) == [kind |-> "message", val |-> <<>>, err |-> m]

NoParse == [set |-> FALSE, raised |-> FALSE, energy |-> NotFound,
            geometry |-> NotFound, raw |-> NotFound]

\* open(output_file).read() raises when the file is missing or holds bytes
\* that are no text
ReadError(file) ==
  IF ~file.exists THEN "FileNotFoundError"
  ELSE IF ~file.readable THEN "UnicodeDecodeError" ELSE "none"

parse_orca_output_unguarded(file) ==
  IF ReadError(file) # "none"
  THEN [NoParse EXCEPT !.raised = TRUE]
  ELSE [set |-> TRUE, raised |-> FALSE, energy |-> ParseEnergy(file.text),
        geometry |-> ParseGeometry(file.text), raw |-> Found(file.text)]

parse_orca_output(file) ==
  LET e == ReadError(file) IN
  IF e # "none"
  THEN [set |-> TRUE, raised |-> FALSE, energy |-> ErrorStr(e),
        geometry |-> ErrorStr(e), raw |-> Msg(e)]
  ELSE [set |-> TRUE, raised |-> FALSE, energy |-> ParseEnergy(file.text),
        geometry |-> ParseGeometry(file.text), raw |-> Found(file.text)]

----------------------------------------------------------------------------
(* generate_orca_input *)

B3LYP == <<"B", "3", "L", "Y", "P">>
def2SVP == <<"d", "e", "f", "2", "-", "S", "V", "P">>
Opt == <<"O", "p", "t">>

DirectiveLine(method, basis, calculation_type) ==
  << <<"!">>, method, basis, calculation_type >>
OpenerLine == << <<"*">>, <<"x", "y", "z">>, <<"0">>, <<"1">> >>
CloserLine == << <<"*">> >>

generate_orca_input_truncating(geom, method, basis, calculation_type) ==
  <<DirectiveLine(method, basis, calculation_type), BLANK, OpenerLine>>
    \o SubSeq(geom, 1, Len(geom) - 1) \o <<CloserLine, BLANK>>

\* the f-string of lines 26-31, as the lines of its text
generate_orca_input(geom, method, basis, calculation_type) ==
  <<DirectiveLine(method, basis, calculation_type), BLANK, OpenerLine>>
    \o geom \o <<CloserLine, BLANK>>

\* geometry_input.strip() is empty (line 200)
IsEmptyGeometry(geom) == \A i \in 1..Len(geom) : geom[i] = BLANK

\* atom_count of line 174: the non-blank lines
NonBlankLines(geom) == SelectSeq(geom, LAMBDA l : l # BLANK)
AtomCount(geom) == Len(NonBlankLines(geom))

----------------------------------------------------------------------------
(* run_orca_calculation *)

NoFile == [exists |-> FALSE, readable |-> FALSE, text |-> <<BLANK>>]
EmptyFile == [exists |-> TRUE, readable |-> TRUE, text |-> <<BLANK>>]

\* a process appends the line l and a newline to the file
AppendLine(file, l) ==
  [file EXCEPT !.text = SubSeq(file.text, 1, Len(file.text) - 1) \o <<l, BLANK>>]

\* "ORCA TERMINATED NORMALLY" in output_content
HasMarker(text) ==
  \E i \in 1..Len(text) : \E j \in 1..Len(text[i]) :
     /\ j + 2 <= Len(text[i])
     /\ HasSuffix(text[i][j], W_ORCA)
     /\ text[i][j + 1] = W_TERMINATED
     /\ HasPrefix(text[i][j + 2], W_NORMALLY)

NoResult == [set |-> FALSE, success |-> FALSE, diag |-> "none", rc |-> 0,
             files |-> {}, exc |-> "none", text |-> <<>>]

Failure(d) == [NoResult EXCEPT !.set = TRUE, !.diag = d]

\* os.listdir(temp_dir)
ListDir(inp, out) ==
  (IF inp # <<>> THEN {"calculation.inp"} ELSE {})
    \cup (IF out.exists THEN {"calculation.out"} ELSE {})

\* line 70
TimedOutResult == Failure("timed_out")

\* line 72 : str(e)
ExceptionResult(e) == [Failure("exception") EXCEPT !.exc = e]

ClassifyByExitCode(rc, inp, out) ==
  IF ~out.exists
  THEN [Failure("no_output") EXCEPT !.rc = rc, !.files = ListDir(inp, out)]
  ELSE IF ~out.readable THEN ExceptionResult("UnicodeDecodeError")
  ELSE IF rc # 0 THEN Failure("abnormal")
  ELSE [NoResult EXCEPT !.set = TRUE, !.success = TRUE, !.diag = "ok",
                        !.text = out.text]

\* lines 53-68 and 71-72: what the runner returns once subprocess.run returned
Classify(rc, inp, out) ==
  IF ~out.exists
  THEN [Failure("no_output") EXCEPT !.rc = rc, !.files = ListDir(inp, out)]
  ELSE IF ~out.readable THEN ExceptionResult("UnicodeDecodeError")
  ELSE IF ~HasMarker(out.text) THEN Failure("abnormal")
  ELSE [NoResult EXCEPT !.set = TRUE, !.success = TRUE, !.diag = "ok",
                        !.text = out.text]

\* line 65 is reached
ChecksMarker(out) == out.exists /\ out.readable

----------------------------------------------------------------------------
(* Inputs and environment of the model *)

AtomO == << <<"O">>, <<"0", ".", "0">>, <<"0", ".", "0">>, <<"0", ".", "0">> >>
AtomH == << <<"H">>, <<"0", ".", "9", "6">>, <<"0", ".", "0">>, <<"0", ".", "0">> >>
\* a row with two fields
ShortRow == << <<"H">>, <<"1", ".", "0">> >>
\* a row whose first coordinate is not a finite number
NanRow == << <<"C">>, <<"n", "a", "n">>, <<"0", ".", "0">>, <<"0", ".", "0">> >>
\* a row with a fifth, non-numeric field
LongRow == << <<"N">>, <<"1", ".", "5">>, <<"0", ".", "0">>, <<"0", ".", "0">>,
              <<"x">> >>

EnergyLine ==
  <<W_FINAL, W_SINGLE, W_POINT, W_ENERGY, <<"-", "7", "6", ".", "1">> >>
\* the label at the end of its line
LabelOnlyLine == <<W_FINAL, W_SINGLE, W_POINT, W_ENERGY>>
\* the label followed by something that is no number
LabelNoNumberLine == <<W_FINAL, W_SINGLE, W_POINT, W_ENERGY, <<"N", "/", "A">> >>
\* a line that starts with a number followed by other characters
NumberLine == << <<"-", "2", ".", "e", "5">> >>
ErrorLine == << <<"E", "R", "R", "O", "R">> >>
\* what the shell writes to its redirected stderr when it cannot run orca
ShellErrorLine ==
  << <<"s", "h", ":">>, <<"o", "r", "c", "a", ":">>, <<"n", "o", "t">>,
     <<"f", "o", "u", "n", "d">> >>

RECURSIVE SeqsUpTo(_, _)
\* the sequences over S of length at most n
SeqsUpTo(S, n) ==
  IF n = 0 THEN {<<>>}
  ELSE LET shorter == SeqsUpTo(S, n - 1) IN
       shorter \cup {Append(q, x) : q \in shorter, x \in S}

\* what the user may have typed into the text area
UserGeometries == { <<BLANK>>, <<AtomO, AtomH>>, <<AtomO, BLANK>> }

\* the lines the engine may write to its report
EngineLines == {MarkerLine, EnergyLine, ErrorLine}

\* exit statuses of the engine
ExitCodes == {0, 1}

NoChild == [phase |-> "none", rc |-> 0]

NoShown == [kind |-> "none", res |-> NoResult, out |-> NoParse]

----------------------------------------------------------------------------
(* main: one script run per request *)

Init ==
  /\ pc = "idle"
  /\ geometry \in UserGeometries
  /\ request = 1
  /\ dirExists = FALSE
  /\ dirsCreated = 0
  /\ inpFile = <<>>
  /\ outFile = NoFile
  /\ child = NoChild
  /\ cause = "none"
  /\ result = NoResult
  /\ engineRuns = 0
  /\ markerChecks = 0
  /\ parserCalls = 0
  /\ parsed = NoParse
  /\ shown = NoShown
  /\ inputDoc = <<>>

\* lines 135-144: check_orca_installation fails and st.stop() ends the run
SystemCheckFails ==
  /\ pc = "idle"
  /\ pc' = "done"
  /\ shown' = [NoShown EXCEPT !.kind = "engine_unavailable"]
  /\ UNCHANGED <<geometry, request, dirExists, dirsCreated, inpFile, outFile,
                 child, cause, result, engineRuns, markerChecks, parserCalls,
                 parsed, inputDoc>>

\* lines 199-202: the button is pressed with an empty geometry
EmptyGeometry ==
  /\ pc = "idle"
  /\ IsEmptyGeometry(geometry)
  /\ pc' = "done"
  /\ shown' = [NoShown EXCEPT !.kind = "empty_geometry"]
  /\ UNCHANGED <<geometry, request, dirExists, dirsCreated, inpFile, outFile,
                 child, cause, result, engineRuns, markerChecks, parserCalls,
                 parsed, inputDoc>>

\* lines 205-208, 36-41: the input file cannot be written; open() is outside
\* the try, the exception leaves main through the with block, which removes
\* the directory
InputWriteFails ==
  /\ pc = "idle"
  /\ ~IsEmptyGeometry(geometry)
  /\ inputDoc' = generate_orca_input(geometry, B3LYP, def2SVP, Opt)
  /\ dirsCreated' = dirsCreated + 1
  /\ dirExists' = FALSE
  /\ cause' = "InputWriteError"
  /\ shown' = [NoShown EXCEPT !.kind = "exception"]
  /\ pc' = "done"
  /\ UNCHANGED <<geometry, request, inpFile, outFile, child, result, engineRuns,
                 markerChecks, parserCalls, parsed>>

\* lines 205-208, 36-51, 71-72: subprocess.run cannot start the shell and
\* raises OSError, which the runner returns as str(e)
SpawnFails ==
  /\ pc = "idle"
  /\ ~IsEmptyGeometry(geometry)
  /\ inputDoc' = generate_orca_input(geometry, B3LYP, def2SVP, Opt)
  /\ dirsCreated' = dirsCreated + 1
  /\ dirExists' = TRUE
  /\ inpFile' = <<inputDoc'>>
  /\ engineRuns' = engineRuns + 1
  /\ cause' = "LaunchFailure"
  /\ result' = ExceptionResult("OSError")
  /\ pc' = "returned"
  /\ UNCHANGED <<geometry, request, outFile, child, markerChecks, parserCalls,
                 parsed, shown>>

\* lines 205-208, 36-51: the directory is created, the input written and the
\* shell child started; subprocess.run blocks
Spawn ==
  /\ pc = "idle"
  /\ ~IsEmptyGeometry(geometry)
  /\ inputDoc' = generate_orca_input(geometry, B3LYP, def2SVP, Opt)
  /\ dirsCreated' = dirsCreated + 1
  /\ dirExists' = TRUE
  /\ inpFile' = <<inputDoc'>>
  /\ engineRuns' = engineRuns + 1
  /\ child' = [phase |-> "shell", rc |-> 0]
  /\ pc' = "running"
  /\ UNCHANGED <<geometry, request, outFile, cause, result, markerChecks,
                 parserCalls, parsed, shown>>

(* The child: /bin/sh -c "orca calculation.inp >& calculation.out" *)

\* the shell opens the redirection target, which creates the file
ShellRedirects ==
  /\ pc = "running" /\ child.phase = "shell"
  /\ outFile' = EmptyFile
  /\ child' = [child EXCEPT !.phase = "exec"]
  /\ UNCHANGED <<pc, geometry, request, dirExists, dirsCreated, inpFile, cause,
                 result, engineRuns, markerChecks, parserCalls, parsed, shown,
                 inputDoc>>

\* a POSIX sh without the >& operator (dash: "Bad fd number") exits with 2
\* before it creates the file or starts the engine
ShellRejectsCommand ==
  /\ pc = "running" /\ child.phase = "shell"
  /\ child' = [phase |-> "exited", rc |-> 2]
  /\ cause' = "LaunchFailure"
  /\ UNCHANGED <<pc, geometry, request, dirExists, dirsCreated, inpFile, outFile,
                 result, engineRuns, markerChecks, parserCalls, parsed, shown,
                 inputDoc>>

\* the shell cannot execute orca: it reports that on the redirected stderr
\* and exits with 127
ExecFails ==
  /\ pc = "running" /\ child.phase = "exec"
  /\ outFile' = AppendLine(outFile, ShellErrorLine)
  /\ child' = [phase |-> "exited", rc |-> 127]
  /\ cause' = "LaunchFailure"
  /\ UNCHANGED <<pc, geometry, request, dirExists, dirsCreated, inpFile, result,
                 engineRuns, markerChecks, parserCalls, parsed, shown, inputDoc>>

ExecEngine ==
  /\ pc = "running" /\ child.phase = "exec"
  /\ child' = [child EXCEPT !.phase = "engine"]
  /\ UNCHANGED <<pc, geometry, request, dirExists, dirsCreated, inpFile, outFile,
                 cause, result, engineRuns, markerChecks, parserCalls, parsed,
                 shown, inputDoc>>

EngineWrites ==
  /\ pc = "running" /\ child.phase = "engine"
  /\ Len(outFile.text) <= MaxOutLines
  /\ \E l \in EngineLines : outFile' = AppendLine(outFile, l)
  /\ UNCHANGED <<pc, geometry, request, dirExists, dirsCreated, inpFile, child,
                 cause, result, engineRuns, markerChecks, parserCalls, parsed,
                 shown, inputDoc>>

\* the engine writes bytes that are not valid text in the locale's encoding
EngineWritesGarbage ==
  /\ pc = "running" /\ child.phase = "engine"
  /\ outFile.readable
  /\ outFile' = [outFile EXCEPT !.readable = FALSE]
  /\ UNCHANGED <<pc, geometry, request, dirExists, dirsCreated, inpFile, child,
                 cause, result, engineRuns, markerChecks, parserCalls, parsed,
                 shown, inputDoc>>

EngineExits ==
  /\ pc = "running" /\ child.phase = "engine"
  /\ \E rc \in ExitCodes : child' = [phase |-> "exited", rc |-> rc]
  /\ UNCHANGED <<pc, geometry, request, dirExists, dirsCreated, inpFile, outFile,
                 cause, result, engineRuns, markerChecks, parserCalls, parsed,
                 shown, inputDoc>>

(* run_orca_calculation after subprocess.run *)

TimeoutExpiredSalvaging ==
  /\ pc = "running" /\ child.phase \in {"shell", "exec", "engine"}
  /\ child' = [child EXCEPT !.phase = "killed"]
  /\ cause' = "Timeout"
  /\ result' = Classify(child.rc, inpFile, outFile)
  /\ markerChecks' = markerChecks + (IF ChecksMarker(outFile) THEN 1 ELSE 0)
  /\ pc' = "returned"
  /\ UNCHANGED <<geometry, request, dirExists, dirsCreated, inpFile, outFile,
                 engineRuns, parserCalls, parsed, shown, inputDoc>>

\* lines 48-51, 69-70: the child is still running after 300 seconds;
\* subprocess.run kills it and raises TimeoutExpired
TimeoutExpired ==
  /\ pc = "running" /\ child.phase \in {"shell", "exec", "engine"}
  /\ child' = [child EXCEPT !.phase = "killed"]
  /\ cause' = "Timeout"
  /\ result' = TimedOutResult
  /\ pc' = "returned"
  /\ UNCHANGED <<geometry, request, dirExists, dirsCreated, inpFile, outFile,
                 engineRuns, markerChecks, parserCalls, parsed, shown, inputDoc>>

\* what happened to a run whose child exited, from the facts alone
CauseOf(c, out) ==
  IF c # "none" THEN c
  ELSE IF ~out.exists THEN "MissingOutput"
  ELSE IF ~out.readable THEN "ReadError"
  ELSE IF ~HasMarker(out.text) THEN "MissingMarker"
  ELSE "Normal"

\* lines 53-68, 71-72: the child exited and subprocess.run returned
ProcessReturns ==
  /\ pc = "running" /\ child.phase = "exited"
  /\ result' = Classify(child.rc, inpFile, outFile)
  /\ markerChecks' = markerChecks + (IF ChecksMarker(outFile) THEN 1 ELSE 0)
  /\ cause' = CauseOf(cause, outFile)
  /\ pc' = "returned"
  /\ UNCHANGED <<geometry, request, dirExists, dirsCreated, inpFile, outFile,
                 child, engineRuns, parserCalls, parsed, shown, inputDoc>>

(* main after run_orca_calculation *)

MainFailureLeaking ==
  /\ pc = "returned" /\ ~result.success
  /\ shown' = [NoShown EXCEPT !.kind = "failure", !.res = result]
  /\ pc' = "done"
  /\ UNCHANGED <<geometry, request, dirExists, dirsCreated, inpFile, outFile,
                 child, cause, result, engineRuns, markerChecks, parserCalls,
                 parsed, inputDoc>>

MainFailureRetrying ==
  /\ pc = "returned" /\ ~result.success
  /\ engineRuns' = engineRuns + 1
  /\ child' = [phase |-> "shell", rc |-> 0]
  /\ outFile' = NoFile
  /\ result' = NoResult
  /\ cause' = "none"
  /\ pc' = "running"
  /\ UNCHANGED <<geometry, request, dirExists, dirsCreated, inpFile,
                 markerChecks, parserCalls, parsed, shown, inputDoc>>

\* lines 216-219 and the exit of the with block of line 205: the failure is
\* shown, main returns and the directory is removed with all it holds
MainFailure ==
  /\ pc = "returned" /\ ~result.success
  /\ shown' = [NoShown EXCEPT !.kind = "failure", !.res = result]
  /\ dirExists' = FALSE
  /\ inpFile' = <<>>
  /\ outFile' = NoFile
  /\ pc' = "done"
  /\ UNCHANGED <<geometry, request, dirsCreated, child, cause, result, engineRuns,
                 markerChecks, parserCalls, parsed, inputDoc>>

\* lines 221-225: the output file is parsed, inside the with block
MainParses ==
  /\ pc = "returned" /\ result.success
  /\ parsed' = parse_orca_output(outFile)
  /\ parserCalls' = parserCalls + 1
  /\ pc' = "parsed"
  /\ UNCHANGED <<geometry, request, dirExists, dirsCreated, inpFile, outFile,
                 child, cause, result, engineRuns, markerChecks, shown, inputDoc>>

\* lines 227-266 and the exit of the with block: the results are shown, or a
\* widget call raises; either way the directory is removed
MainDisplays ==
  /\ pc = "parsed"
  /\ \E uiOK \in BOOLEAN :
       shown' = IF uiOK THEN [NoShown EXCEPT !.kind = "results", !.out = parsed]
                ELSE [NoShown EXCEPT !.kind = "exception"]
  /\ dirExists' = FALSE
  /\ inpFile' = <<>>
  /\ outFile' = NoFile
  /\ pc' = "done"
  /\ UNCHANGED <<geometry, request, dirsCreated, child, cause, result, engineRuns,
                 markerChecks, parserCalls, parsed, inputDoc>>

\* the user edits the text area and the script runs again
Rerun ==
  /\ pc = "done"
  /\ request < MaxRequests
  /\ request' = request + 1
  /\ geometry' \in UserGeometries
  /\ pc' = "idle"
  /\ dirsCreated' = 0
  /\ child' = NoChild
  /\ cause' = "none"
  /\ result' = NoResult
  /\ engineRuns' = 0
  /\ markerChecks' = 0
  /\ parserCalls' = 0
  /\ parsed' = NoParse
  /\ shown' = NoShown
  /\ inputDoc' = <<>>
  /\ UNCHANGED <<dirExists, inpFile, outFile>>

Next ==
  \/ SystemCheckFails
  \/ EmptyGeometry
  \/ InputWriteFails
  \/ SpawnFails
  \/ Spawn
  \/ ShellRedirects
  \/ ShellRejectsCommand
  \/ ExecFails
  \/ ExecEngine
  \/ EngineWrites
  \/ EngineWritesGarbage
  \/ EngineExits
  \/ TimeoutExpired
  \/ ProcessReturns
  \/ MainFailure
  \/ MainParses
  \/ MainDisplays
  \/ Rerun

Spec == Init /\ [][Next]_vars

----------------------------------------------------------------------------
(* parse_orca_output called on its own, on a file of any content *)

EnergyPool ==
  {EnergyLine, LabelOnlyLine, LabelNoNumberLine, NumberLine, MarkerLine, BLANK}

EnergyTexts == SeqsUpTo(EnergyPool, MaxTextLines) \ {<<>>}

InitParse ==
  /\ pc = "standalone"
  /\ outFile \in {NoFile} \cup
       {[exists |-> TRUE, readable |-> r, text |-> t] :
          r \in BOOLEAN, t \in EnergyTexts}
  /\ geometry = <<BLANK>>
  /\ request = 1
  /\ dirExists = FALSE
  /\ dirsCreated = 0
  /\ inpFile = <<>>
  /\ child = NoChild
  /\ cause = "none"
  /\ result = NoResult
  /\ engineRuns = 0
  /\ markerChecks = 0
  /\ parserCalls = 0
  /\ parsed = NoParse
  /\ shown = NoShown
  /\ inputDoc = <<>>

\* lines 74-117: one call of parse_orca_output; cause records what the read did
ParseStandalone ==
  /\ pc = "standalone"
  /\ parsed' = parse_orca_output(outFile)
  /\ cause' = ReadError(outFile)
  /\ parserCalls' = parserCalls + 1
  /\ pc' = "parsedStandalone"
  /\ UNCHANGED <<geometry, request, dirExists, dirsCreated, inpFile, outFile,
                 child, result, engineRuns, markerChecks, shown, inputDoc>>

NextParse == ParseStandalone

SpecParse == InitParse /\ [][NextParse]_vars

(* Reports made of Cartesian-coordinates sections: an optional rule above the
   header, the header, the separator rule, the rows, and what ends them *)

BodyPool == {AtomO, AtomH, ShortRow, NanRow, LongRow}

Bodies == SeqsUpTo(BodyPool, MaxBodyLines) \ {<<>>}

Gaps == { <<>>, <<RuleLine>> }

Terminators == { <<BLANK>>, <<RuleLine>>, <<BLANK, BLANK>> }

SectionPieces ==
  {g \o <<HeaderLine, RuleLine>> \o b \o t :
     g \in Gaps, b \in Bodies, t \in Terminators}

RECURSIVE SectionRuns(_)
\* one to n sections, one after the other
SectionRuns(n) ==
  IF n = 0 THEN {}
  ELSE LET shorter == SectionRuns(n - 1) IN
       SectionPieces \cup shorter \cup {q \o x : q \in shorter, x \in SectionPieces}

\* the report ends with a newline
SectionTexts(n) == {q \o <<BLANK>> : q \in SectionRuns(n)}

InitGeometry ==
  /\ pc = "standalone"
  /\ outFile \in {[exists |-> TRUE, readable |-> TRUE, text |-> t] :
                    t \in SectionTexts(MaxSections)}
  /\ geometry = <<BLANK>>
  /\ request = 1
  /\ dirExists = FALSE
  /\ dirsCreated = 0
  /\ inpFile = <<>>
  /\ child = NoChild
  /\ cause = "none"
  /\ result = NoResult
  /\ engineRuns = 0
  /\ markerChecks = 0
  /\ parserCalls = 0
  /\ parsed = NoParse
  /\ shown = NoShown
  /\ inputDoc = <<>>

NextGeometry == ParseStandalone

SpecGeometry == InitGeometry /\ [][NextGeometry]_vars

----------------------------------------------------------------------------
(* generate_orca_input called by main on a geometry of any content *)

InputPool == {AtomO, AtomH, ShortRow, BLANK}

InputGeometries == SeqsUpTo(InputPool, MaxGeomLines) \ {<<>>}

InitInput ==
  /\ pc = "builder"
  /\ geometry \in InputGeometries
  /\ request = 1
  /\ dirExists = FALSE
  /\ dirsCreated = 0
  /\ inpFile = <<>>
  /\ outFile = NoFile
  /\ child = NoChild
  /\ cause = "none"
  /\ result = NoResult
  /\ engineRuns = 0
  /\ markerChecks = 0
  /\ parserCalls = 0
  /\ parsed = NoParse
  /\ shown = NoShown
  /\ inputDoc = <<>>

\* lines 199-202
RejectEmpty ==
  /\ pc = "builder"
  /\ IsEmptyGeometry(geometry)
  /\ shown' = [NoShown EXCEPT !.kind = "empty_geometry"]
  /\ pc' = "rejected"
  /\ UNCHANGED <<geometry, request, dirExists, dirsCreated, inpFile, outFile,
                 child, cause, result, engineRuns, markerChecks, parserCalls,
                 parsed, inputDoc>>

\* line 208
BuildInput ==
  /\ pc = "builder"
  /\ ~IsEmptyGeometry(geometry)
  /\ inputDoc' = generate_orca_input(geometry, B3LYP, def2SVP, Opt)
  /\ pc' = "built"
  /\ UNCHANGED <<geometry, request, dirExists, dirsCreated, inpFile, outFile,
                 child, cause, result, engineRuns, markerChecks, parserCalls,
                 parsed, shown>>

NextInput == RejectEmpty \/ BuildInput

SpecInput == InitInput /\ [][NextInput]_vars

----------------------------------------------------------------------------
(* The claims *)

\* the diagnostic that belongs to each failure condition
DiagFor(c) ==
  CASE c = "LaunchFailure" -> "exception"
    [] c = "ReadError" -> "exception"
    [] c = "Timeout" -> "timed_out"
    [] c = "MissingOutput" -> "no_output"
    [] c = "MissingMarker" -> "abnormal"
    [] OTHER -> "none"

\* C1: a failed run of the runner returns the diagnostic of exactly the
\* condition that occurred; in particular an engine that could not be
\* launched is reported neither as a missing output file nor as a missing
\* success marker.
C1_DiagnosticMatchesCondition ==
  (pc = "returned" /\ result.set /\ ~result.success)
    => result.diag = DiagFor(cause)

\* C2 as stated: the runner returns success only if the output file exists
\* and holds the success marker; whatever the exit code, a run whose output
\* file exists and lacks the marker fails as abnormal termination.
C2_MarkerAloneDecides ==
  (pc = "returned" /\ result.set) =>
    /\ result.success => (outFile.exists /\ HasMarker(outFile.text))
    /\ (child.phase = "exited" /\ outFile.exists /\ ~HasMarker(outFile.text))
         => (~result.success /\ result.diag = "abnormal")

\* C2 amended: the runner returns success only if the output file exists
\* and holds the success marker; whatever the exit code, an existing output
\* that can be read as text fails as abnormal termination without the
\* marker and succeeds with it, and one that cannot be read as text fails
\* with the message of the read's exception.
C2_MarkerDecides ==
  (pc = "returned" /\ result.set) =>
    /\ result.success =>
         (outFile.exists /\ outFile.readable /\ HasMarker(outFile.text))
    /\ (child.phase = "exited" /\ outFile.exists /\ outFile.readable)
         => IF HasMarker(outFile.text)
            THEN result.success /\ result.text = outFile.text
            ELSE ~result.success /\ result.diag = "abnormal"
    /\ (child.phase = "exited" /\ outFile.exists /\ ~outFile.readable)
         => (~result.success /\ result.diag = "exception")

\* C2 happens: exit code 0, a non-empty output without the marker, failed
C2_Witness ==
  /\ pc = "returned" /\ child.phase = "exited" /\ child.rc = 0
  /\ outFile.exists /\ outFile.readable
  /\ Len(outFile.text) > 1 /\ ~HasMarker(outFile.text)
  /\ cause = "MissingMarker"
  /\ result.diag = "abnormal"

\* C3: after a timeout the run has failed with the timed-out diagnostic, the
\* output was never tested for the marker and never given to the parser,
\* whatever the output file holds.
C3_TimeoutFails ==
  cause = "Timeout" =>
    /\ result.set /\ ~result.success /\ result.diag = "timed_out"
    /\ markerChecks = 0
    /\ parserCalls = 0 /\ ~parsed.set
    /\ shown.kind \in {"none", "failure"}

\* C3 happens: the timeout fired on an output that already holds the marker
C3_Witness ==
  /\ cause = "Timeout" /\ pc = "returned"
  /\ outFile.exists /\ HasMarker(outFile.text)

\* C4: once a request has completed, on any path, its temporary directory
\* and the files in it are gone; the directory exists only while the request
\* is between creating it and leaving the with block.
C4_DirectoryRemoved ==
  /\ pc = "done" => (~dirExists /\ inpFile = <<>> /\ ~outFile.exists)
  /\ dirExists => pc \in {"running", "returned", "parsed"}
  /\ dirsCreated <= 1

\* C4 happens: a request that created a directory and failed has completed
C4_Witness ==
  /\ pc = "done" /\ dirsCreated = 1 /\ ~dirExists
  /\ result.set /\ ~result.success

\* C5: a request runs the engine at most once; the parser runs only after a
\* run that succeeded; a request whose run failed ends with the runner's
\* diagnostic shown and without a parser call.
C5_FailureTerminal ==
  /\ engineRuns <= 1
  /\ parserCalls <= 1
  /\ parserCalls > 0 => (result.set /\ result.success)
  /\ (pc = "done" /\ result.set /\ ~result.success)
       => /\ shown.kind = "failure" /\ shown.res = result
          /\ parserCalls = 0 /\ ~parsed.set
          /\ engineRuns = 1

\* C5 happens: a request ended after a failed run of the engine
C5_Witness ==
  /\ pc = "done" /\ result.set /\ ~result.success
  /\ engineRuns = 1 /\ result.diag = "abnormal" /\ shown.kind = "failure"

(* Sections as the claims describe them: a header line, a separator rule on
   the next line, rows, ended by a blank line or a rule *)

IsRuleOnly(l) == Len(l) = 1 /\ AllDashes(l[1])

RECURSIVE BodyEnd(_, _)
\* the first blank line or rule from line i on, Len(text) + 1 if none
BodyEnd(text, i) ==
  IF i > Len(text) THEN i
  ELSE IF text[i] = BLANK \/ IsRuleOnly(text[i]) THEN i
  ELSE BodyEnd(text, i + 1)

SectionHeads(text) ==
  {h \in 1..Len(text) :
     /\ text[h] = HeaderLine
     /\ h + 1 <= Len(text) /\ IsRuleOnly(text[h + 1])
     /\ BodyEnd(text, h + 2) <= Len(text)}

SectionBody(text, h) == SubSeq(text, h + 2, BodyEnd(text, h + 2) - 1)

GeometryOf(lines) == IF lines = <<>> THEN NotFound ELSE Found(lines)

\* C6: for a text with one or more Cartesian-coordinates sections, a
\* geometry that is returned consists of the rows of the last section in
\* document order, and of no row of an earlier section.
C6_LastSectionOnly ==
  (pc = "parsedStandalone" /\ cause = "none"
     /\ SectionHeads(outFile.text) # {}
     /\ parsed.geometry.kind = "found") =>
    LET hs == SectionHeads(outFile.text)
        last == CHOOSE h \in hs : \A o \in hs : o <= h
    IN parsed.geometry.val = AtomLines(SectionBody(outFile.text, last))

\* a finite number: a decimal literal, not inf or nan
IsFiniteNumber(t) == IsDecimal(t)

\* at least four fields, the last three finite numbers
ClaimKeeps(l) ==
  /\ Len(l) >= 4
  /\ IsFiniteNumber(l[Len(l) - 2])
  /\ IsFiniteNumber(l[Len(l) - 1])
  /\ IsFiniteNumber(l[Len(l)])

\* C7: of the selected block exactly the lines with at least four fields
\* whose last three are finite numbers are kept, in their order, and the
\* geometry is "Not found" exactly when none is kept.
C7_KeepsExactlyValidRows ==
  (pc = "parsedStandalone" /\ cause = "none"
     /\ FindAll(outFile.text, 1) # <<>>) =>
    LET ms == FindAll(outFile.text, 1)
        kept == SelectSeq(Block(outFile.text, ms[Len(ms)]), ClaimKeeps)
    IN parsed.geometry =
         GeometryOf([i \in 1..Len(kept) |-> FormatAtom(kept[i])])

\* C8: parse_orca_output raises nothing and returns its three values; when
\* reading the file raised, energy and geometry are "Error: <message>" for
\* that exception's message.
C8_ParserNeverRaises ==
  pc = "parsedStandalone" =>
    /\ parsed.set /\ ~parsed.raised
    /\ cause # "none" =>
         /\ parsed.energy = ErrorStr(cause)
         /\ parsed.geometry = ErrorStr(cause)
    /\ cause = "none" => parsed.raw = Found(outFile.text)

\* C8 happens: the parser was called on a file that does not exist
C8_Witness ==
  /\ pc = "parsedStandalone" /\ ~outFile.exists
  /\ cause = "FileNotFoundError"
  /\ parsed.energy = ErrorStr("FileNotFoundError")

\* the prefix of token t that is a number: optional sign, digits, optional
\* decimal point, optional exponent
NumericPrefix(t) == SubSeq(t, 1, NumMatchLen(t))

\* C9 as stated: the energy is the number after the FIRST occurrence of the
\* label, and "Not found" when the label occurs nowhere.
C9_FirstLabelOccurrence ==
  (pc = "parsedStandalone" /\ cause = "none") =>
    LET ls == LabelPositions(outFile.text) IN
    /\ ls = {} => parsed.energy = NotFound
    /\ parsed.energy.kind = "found" =>
         \E p \in ls :
            /\ \A o \in ls : ~Before(o, p)
            /\ parsed.energy.val =
                 NumericPrefix(TokenAfterLabel(outFile.text, p[1], p[2]))

\* C9 amended: the energy is the number after the first occurrence of the
\* label that is followed by white space and a number, as written in the
\* text; it is "Not found" when no occurrence is followed by a number, in
\* particular when the label occurs nowhere.
C9_FirstLabelWithNumber ==
  (pc = "parsedStandalone" /\ cause = "none") =>
    LET ls == LabelPositions(outFile.text)
        numbered == {p \in ls :
                       NumMatchLen(TokenAfterLabel(outFile.text, p[1], p[2])) >= 1}
    IN /\ ~parsed.raised
       /\ ls = {} => parsed.energy = NotFound
       /\ numbered = {} => parsed.energy = NotFound
       /\ numbered # {} =>
            \E p \in numbered :
               /\ \A o \in numbered : ~Before(o, p)
               /\ parsed.energy.kind = "found"
               /\ parsed.energy.val =
                    NumericPrefix(TokenAfterLabel(outFile.text, p[1], p[2]))
               /\ HasPrefix(TokenAfterLabel(outFile.text, p[1], p[2]),
                            parsed.energy.val)

\* C9 happens: the first label has no number, a later one has, and the
\* later number is the energy
C9_Witness ==
  /\ pc = "parsedStandalone" /\ cause = "none"
  /\ outFile.text = <<LabelNoNumberLine, EnergyLine, BLANK>>
  /\ parsed.energy = Found(<<"-", "7", "6", ".", "1">>)

\* first line that is the opener, last line that is the closing *
OpenerIndex(doc) ==
  CHOOSE i \in 1..Len(doc) :
    doc[i] = OpenerLine /\ \A k \in 1..(i - 1) : doc[k] # OpenerLine
CloserIndex(doc) ==
  CHOOSE i \in 1..Len(doc) :
    doc[i] = CloserLine /\ \A k \in (i + 1)..Len(doc) : doc[k] # CloserLine
Between(doc) == SubSeq(doc, OpenerIndex(doc) + 1, CloserIndex(doc) - 1)

\* C10 as stated: between the opener and the closing * the document holds
\* exactly N lines, the N atom lines of the geometry in their order and
\* unchanged, after the directive line and one blank line.
C10_ExactlyTheAtomLines ==
  pc = "built" =>
    /\ Len(Between(inputDoc)) = AtomCount(geometry)
    /\ Between(inputDoc) = NonBlankLines(geometry)
    /\ inputDoc[1] = DirectiveLine(B3LYP, def2SVP, Opt)
    /\ inputDoc[2] = BLANK

\* C10 amended: between the opener and the closing * the document holds the
\* geometry text as it was entered: its N atom lines in their order and
\* unchanged, and its blank lines too; the document starts with the
\* directive line, one blank line and the opener.
C10_GeometryVerbatim ==
  pc = "built" =>
    /\ Len(NonBlankLines(Between(inputDoc))) = AtomCount(geometry)
    /\ NonBlankLines(Between(inputDoc)) = NonBlankLines(geometry)
    /\ Between(inputDoc) = geometry
    /\ inputDoc[1] = DirectiveLine(B3LYP, def2SVP, Opt)
    /\ inputDoc[2] = BLANK
    /\ OpenerIndex(inputDoc) = 3

\* C10 happens: a geometry of two atom lines and a blank line was built
C10_Witness ==
  /\ pc = "built"
  /\ AtomCount(geometry) = 2 /\ Len(geometry) = 3
  /\ Len(Between(inputDoc)) = 3
====
